---- MODULE Spec2Model ----
(***************************************************************************)
(* Streaming session state manager of the T-one ASR REST API:              *)
(*   storage/memory_storage.py   MemoryStorage                             *)
(*   storage/redis_storage.py    RedisStorage                              *)
(*   audio_processor.py          AudioProcessor (frame segmentation)       *)
(*   services/audio_service.py   AudioService                              *)
(*   services/streaming_service.py  StreamingService                       *)
(*   routers/streaming.py        the three HTTP handlers                   *)
(*                                                                         *)
(* Specifications over the same state:                                     *)
(*   SpecStore    the StateStorage interface called directly               *)
(*   SpecService  the StreamingService methods called directly             *)
(*   Spec         the HTTP handlers of routers/streaming.py                *)
(*   SpecOverlap  process_chunk called by two callers at once              *)
(*   SpecPair     a MemoryStorage and a RedisStorage given the same calls  *)
(*   SpecOutage   the HTTP handlers while the Redis server comes and goes  *)
(*   SpecSegmenter  transcribe_streaming cutting a decoded buffer in frames*)
(*   SpecAuth     the HTTP handlers behind DocsAuthMiddleware, with an API *)
(*                key configured and requests with any X-API-Key header    *)
(*   SpecSteps    one process_chunk call statement by statement: read and  *)
(*                decode, extend the list, update_state                    *)
(*   SpecUpload   the chunk endpoint with resp.count recording the status   *)
(*                validate_audio_file raised for the upload (0 if none)    *)
(*   SpecShutdown sessions are started, the server may be out of reach,    *)
(*                and the shutdown handler of main.py runs                 *)
(*   SpecReclaim  MemoryStorage whose create_state and get_state keep      *)
(*                being called (weak fairness), no delete_state            *)
(*   SpecThreads  MemoryStorage.update_state and delete_state from two     *)
(*                threads, statement by statement                          *)
(* Time is a discrete clock; one unit is an arbitrary number of seconds.   *)
(***************************************************************************)
EXTENDS Integers, Sequences, FiniteSets, TLC

VARIABLES
    storage,    \* the StateStorage instance (_storage in routers/streaming.py)
    now,        \* datetime.now() / the Redis server clock
    loaded,     \* audio_processor.pipeline is not None
    nextId,     \* the next value uuid.uuid4() returns (never repeats)
    resp,       \* what the last call returned or raised
    inflight,   \* the process_chunk calls begun and not yet returned, per caller
    reachable   \* the Redis server answers (no redis.ConnectionError)

vars == <<storage, now, loaded, nextId, resp, inflight, reachable>>

----------------------------------------------------------------------------
(* Bounds of the model *)

MaxIds == 2         \* session ids are 1..MaxIds
MaxAcc == 2         \* accumulated phrases in the storage, over all sessions
MaxFinal == 2       \* longest phrase list pipeline.finalize returns
MaxDec == 2         \* frames consumed, over all sessions in the storage
Timeout == 2        \* settings.session_timeout_seconds, in clock units
ChunkSize == 2      \* pipeline.CHUNK_SIZE, in samples
MaxTime == Timeout + 2          \* the clock stops here
OverlapIds == 1     \* sessions created while calls overlap (SpecOverlap)
(* decoded buffer lengths: empty, one frame exactly, one sample more *)
SampleCounts == { 0, ChunkSize, ChunkSize + 1 }

Ids == 1..MaxIds
NULL == 0           \* Python None as a pipeline state

(* tone phrases: text, start_time, end_time *)
Phrase(t, s, e) == [text |-> t, start_time |-> s, end_time |-> e]
(* the phrases pipeline.forward returns, and those pipeline.finalize returns *)
ForwardPhrases == { Phrase("a", 0, 1), Phrase("b", 1, 2) }
FinalPhrases == { Phrase("b", 1, 2), Phrase("x", 1, 2), Phrase("c", 2, 3) }

SeqsUpTo(S, n) == UNION { [1..k -> S] : k \in 0..n }

(* What a storage slot holds: None, or the tuple (pipeline_state, accumulated) *)
NonePayload == [tuple |-> FALSE, st |-> NULL, acc |-> <<>>]
Tuple(st, acc) == [tuple |-> TRUE, st |-> st, acc |-> acc]

(* dict helpers *)
Put(f, k, v) == [i \in (DOMAIN f) \cup {k} |-> IF i = k THEN v ELSE f[i]]
Pop(f, k) == [i \in (DOMAIN f) \ {k} |-> f[i]]
Keep(f, K) == [i \in (DOMAIN f) \cap K |-> f[i]]
EmptyDict == [i \in {} |-> 0]

(* Result of a call: the storage afterwards, the value returned, the exception raised *)
Ret(S, v) == [s |-> S, v |-> v, err |-> ""]
Raise(S, e) == [s |-> S, v |-> 0, err |-> e]

----------------------------------------------------------------------------
(* storage/memory_storage.py: MemoryStorage *)

MemoryStorage == [kind |-> "memory", states |-> EmptyDict, timestamps |-> EmptyDict]

(* delete_state popping the state and leaving the timestamp *)
Memory_delete_state_keeps_timestamp(S, state_id) ==
    [S EXCEPT !.states = Pop(S.states, state_id)]

Memory_delete_state(S, state_id) ==
    [S EXCEPT !.states = Pop(S.states, state_id),
              !.timestamps = Pop(S.timestamps, state_id)]

(* the expiry test with >= in place of > *)
Memory_expired_inclusive(S, t) ==
    { sid \in DOMAIN S.timestamps : t - S.timestamps[sid] >= Timeout }

(* (now - ts).total_seconds() > self.timeout_seconds *)
Memory_expired(S, t) ==
    { sid \in DOMAIN S.timestamps : t - S.timestamps[sid] > Timeout }

(* _cleanup_expired: delete_state for every expired id *)
Memory__cleanup_expired(S, t) ==
    LET expired == Memory_expired(S, t)
    IN  [S EXCEPT !.states = Keep(S.states, (DOMAIN S.states) \ expired),
                  !.timestamps = Keep(S.timestamps, (DOMAIN S.timestamps) \ expired)]

Memory_create_state(S, t, state_id) ==
    LET S1 == Memory__cleanup_expired(S, t)
    IN  Ret([S1 EXCEPT !.states = Put(S1.states, state_id, NonePayload),
                       !.timestamps = Put(S1.timestamps, state_id, t)],
            state_id)

Memory_get_state_without_sweep(S, t, state_id) ==
    Ret(S, IF state_id \in DOMAIN S.states THEN S.states[state_id] ELSE NonePayload)

Memory_get_state(S, t, state_id) ==
    LET S1 == Memory__cleanup_expired(S, t)
    IN  Ret(S1, IF state_id \in DOMAIN S1.states THEN S1.states[state_id] ELSE NonePayload)

(* update_state refreshing the timestamp of every session *)
Memory_update_state_touches_all(S, t, state_id, state) ==
    IF state_id \notin DOMAIN S.states
    THEN Raise(S, "KeyError")
    ELSE Ret([S EXCEPT !.states = Put(S.states, state_id, state),
                       !.timestamps = [k \in DOMAIN S.timestamps |-> t]],
             0)

Memory_update_state(S, t, state_id, state) ==
    IF state_id \notin DOMAIN S.states
    THEN Raise(S, "KeyError")
    ELSE Ret([S EXCEPT !.states = Put(S.states, state_id, state),
                       !.timestamps = IF state_id \in DOMAIN S.timestamps
                                      THEN Put(S.timestamps, state_id, t)
                                      ELSE S.timestamps],
             0)

Memory_state_exists(S, state_id) == state_id \in DOMAIN S.states

Memory_cleanup_expired(S, t) ==
    LET before_count == Cardinality(DOMAIN S.states)
        S1 == Memory__cleanup_expired(S, t)
    IN  Ret(S1, before_count - Cardinality(DOMAIN S1.states))

Memory_get_all_state_ids(S) == DOMAIN S.states

----------------------------------------------------------------------------
(* storage/redis_storage.py: RedisStorage.  The server holds, per session,  *)
(* the value key and the timestamp key, each with the instant it expires.   *)

RedisStorage == [kind |-> "redis", keys |-> EmptyDict, tskeys |-> EmptyDict]

(* SETEX key seconds value *)
Redis_setex(db, t, k, seconds, value) == Put(db, k, [data |-> value, exp |-> t + seconds])

(* the server drops a key once its time to live has run out *)
Redis_expire(S, t) ==
    [S EXCEPT !.keys = Keep(S.keys, { k \in DOMAIN S.keys : S.keys[k].exp > t }),
              !.tskeys = Keep(S.tskeys, { k \in DOMAIN S.tskeys : S.tskeys[k].exp > t })]

(* TTL key: remaining seconds, -2 when the key does not exist *)
Redis_ttl(db, t, k) == IF k \in DOMAIN db THEN db[k].exp - t ELSE 0 - 2

Redis_create_state(S, t, state_id) ==
    Ret([S EXCEPT !.keys = Redis_setex(S.keys, t, state_id, Timeout, NonePayload),
                  !.tskeys = Redis_setex(S.tskeys, t, state_id, Timeout, t)],
        state_id)

Redis_get_state(S, t, state_id) ==
    Ret(S, IF state_id \in DOMAIN S.keys THEN S.keys[state_id].data ELSE NonePayload)

(* update_state giving the timestamp key the full timeout *)
Redis_update_state_write_timestamp_full(S, t, state_id, state) ==
    LET ttl == Redis_ttl(S.keys, t, state_id)
        seconds == IF ttl > 0 THEN ttl ELSE Timeout
    IN  Ret([S EXCEPT !.keys = Redis_setex(S.keys, t, state_id, seconds, state),
                      !.tskeys = Redis_setex(S.tskeys, t, state_id, Timeout, t)],
            0)

(* update_state after its exists check: TTL, then SETEX of both keys *)
Redis_update_state_write(S, t, state_id, state) ==
    LET ttl == Redis_ttl(S.keys, t, state_id)
        seconds == IF ttl > 0 THEN ttl ELSE Timeout
    IN  Ret([S EXCEPT !.keys = Redis_setex(S.keys, t, state_id, seconds, state),
                      !.tskeys = Redis_setex(S.tskeys, t, state_id, seconds, t)],
            0)

Redis_update_state(S, t, state_id, state) ==
    IF state_id \notin DOMAIN S.keys
    THEN Raise(S, "KeyError")
    ELSE Redis_update_state_write(S, t, state_id, state)

(* delete_state removing the timestamp key only *)
Redis_delete_state_timestamp_only(S, state_id) ==
    [S EXCEPT !.tskeys = Pop(S.tskeys, state_id)]

Redis_delete_state(S, state_id) ==
    [S EXCEPT !.keys = Pop(S.keys, state_id), !.tskeys = Pop(S.tskeys, state_id)]

Redis_state_exists(S, state_id) == state_id \in DOMAIN S.keys

Redis_cleanup_expired(S, t) == Ret(S, 0)

Redis_get_all_state_ids(S) == DOMAIN S.keys

----------------------------------------------------------------------------
(* storage/redis_storage.py: RedisStorage while the server cannot be        *)
(* reached: every command raises redis.ConnectionError, a RedisError, and   *)
(* each method goes through its except clause; the keys behind stay as they *)
(* are                                                                      *)

Unreachable(S) == [kind |-> "unreachable", behind |-> S]

(* except RedisError: raise *)
Unreachable_create_state(S) == Raise(S, "RedisError")
Unreachable_get_state(S) == Raise(S, "RedisError")
Unreachable_update_state(S) == Raise(S, "RedisError")

(* except RedisError: "Don't raise - deletion is best effort" *)
Unreachable_delete_state(S) == S

(* except RedisError: return False *)
Unreachable_state_exists(S) == FALSE

(* except RedisError: return [] *)
Unreachable_get_all_state_ids(S) == {}

----------------------------------------------------------------------------
(* StateStorage: the interface, dispatched on the configured backend *)

create_storage(storage_type) ==
    IF storage_type = "memory" THEN MemoryStorage ELSE RedisStorage

create_state(S, t, state_id) ==
    IF S.kind = "memory" THEN Memory_create_state(S, t, state_id)
    ELSE IF S.kind = "unreachable" THEN Unreachable_create_state(S)
    ELSE Redis_create_state(S, t, state_id)

get_state(S, t, state_id) ==
    IF S.kind = "memory" THEN Memory_get_state(S, t, state_id)
    ELSE IF S.kind = "unreachable" THEN Unreachable_get_state(S)
    ELSE Redis_get_state(S, t, state_id)

update_state(S, t, state_id, state) ==
    IF S.kind = "memory" THEN Memory_update_state(S, t, state_id, state)
    ELSE IF S.kind = "unreachable" THEN Unreachable_update_state(S)
    ELSE Redis_update_state(S, t, state_id, state)

delete_state(S, state_id) ==
    IF S.kind = "memory" THEN Memory_delete_state(S, state_id)
    ELSE IF S.kind = "unreachable" THEN Unreachable_delete_state(S)
    ELSE Redis_delete_state(S, state_id)

state_exists(S, state_id) ==
    IF S.kind = "memory" THEN Memory_state_exists(S, state_id)
    ELSE IF S.kind = "unreachable" THEN Unreachable_state_exists(S)
    ELSE Redis_state_exists(S, state_id)

cleanup_expired(S, t) ==
    IF S.kind = "memory" THEN Memory_cleanup_expired(S, t)
    ELSE IF S.kind = "unreachable" THEN Ret(S, 0)
    ELSE Redis_cleanup_expired(S, t)

get_all_state_ids(S) ==
    IF S.kind = "memory" THEN Memory_get_all_state_ids(S)
    ELSE IF S.kind = "unreachable" THEN Unreachable_get_all_state_ids(S)
    ELSE Redis_get_all_state_ids(S)

----------------------------------------------------------------------------
(* audio_processor.py: AudioProcessor.  The tone pipeline and read_audio    *)
(* are outside the repository: what a call to them yields is an input.      *)
(*   audio = [size, decodable, samples]   the uploaded bytes                *)
(*   outs[i] = [ok, phrases]              what pipeline.forward does on     *)
(*                                        the i-th frame of the call        *)
(* A pipeline state counts the frames the pipeline has consumed.            *)

Zeros(n) == [i \in 1..n |-> 0]

(* padding in front of the samples instead of behind them *)
np_pad_left(audio, n) == Zeros(n) \o audio

(* np.pad(audio, (0, n), mode="constant", constant_values=0) *)
np_pad(audio, n) == audio \o Zeros(n)

(* the pieces handed out last to first *)
np_split_reversed(audio, num_chunks) ==
    LET size == Len(audio) \div num_chunks
    IN  [i \in 1..num_chunks |->
            SubSeq(audio, (num_chunks - i) * size + 1, (num_chunks - i + 1) * size)]

(* np.split(audio, num_chunks): num_chunks equal consecutive pieces *)
np_split(audio, num_chunks) ==
    LET size == Len(audio) \div num_chunks
    IN  [i \in 1..num_chunks |-> SubSeq(audio, (i - 1) * size + 1, i * size)]

(* a buffer of exactly CHUNK_SIZE samples passed with is_last=True *)
Frames_single_is_last(audio) ==
    IF Len(audio) > ChunkSize
    THEN LET remainder == Len(audio) % ChunkSize
             padded == IF remainder # 0 THEN np_pad(audio, ChunkSize - remainder) ELSE audio
             num_chunks == Len(padded) \div ChunkSize
             audio_chunks == np_split(padded, num_chunks)
         IN  [i \in 1..num_chunks |->
                 [chunk |-> audio_chunks[i], is_last |-> (i = Len(audio_chunks))]]
    ELSE IF Len(audio) < ChunkSize
    THEN << [chunk |-> np_pad(audio, ChunkSize - Len(audio)), is_last |-> FALSE] >>
    ELSE << [chunk |-> audio, is_last |-> TRUE] >>

(* a short buffer passed to the pipeline as it is, without padding *)
Frames_short_unpadded(audio) ==
    IF Len(audio) > ChunkSize
    THEN LET remainder == Len(audio) % ChunkSize
             padded == IF remainder # 0 THEN np_pad(audio, ChunkSize - remainder) ELSE audio
             num_chunks == Len(padded) \div ChunkSize
             audio_chunks == np_split(padded, num_chunks)
         IN  [i \in 1..num_chunks |->
                 [chunk |-> audio_chunks[i], is_last |-> (i = Len(audio_chunks))]]
    ELSE << [chunk |-> audio, is_last |-> FALSE] >>

(* an empty buffer returning without a call to the pipeline *)
Frames_empty_is_skipped(audio) ==
    IF Len(audio) > ChunkSize
    THEN LET remainder == Len(audio) % ChunkSize
             padded == IF remainder # 0 THEN np_pad(audio, ChunkSize - remainder) ELSE audio
             num_chunks == Len(padded) \div ChunkSize
             audio_chunks == np_split(padded, num_chunks)
         IN  [i \in 1..num_chunks |->
                 [chunk |-> audio_chunks[i], is_last |-> (i = Len(audio_chunks))]]
    ELSE IF Len(audio) = 0
    THEN <<>>
    ELSE IF Len(audio) < ChunkSize
    THEN << [chunk |-> np_pad(audio, ChunkSize - Len(audio)), is_last |-> FALSE] >>
    ELSE << [chunk |-> audio, is_last |-> FALSE] >>

(* the frames transcribe_streaming hands to pipeline.forward, with is_last *)
Frames(audio) ==
    IF Len(audio) > ChunkSize
    THEN LET remainder == Len(audio) % ChunkSize
             padded == IF remainder # 0 THEN np_pad(audio, ChunkSize - remainder) ELSE audio
             num_chunks == Len(padded) \div ChunkSize
             audio_chunks == np_split(padded, num_chunks)
         IN  [i \in 1..num_chunks |->
                 [chunk |-> audio_chunks[i], is_last |-> (i = Len(audio_chunks))]]
    ELSE IF Len(audio) < ChunkSize
    THEN << [chunk |-> np_pad(audio, ChunkSize - Len(audio)), is_last |-> FALSE] >>
    ELSE << [chunk |-> audio, is_last |-> FALSE] >>

(* pipeline.forward(chunk, state, is_last) -> (new_phrases, new_state) *)
pipeline_forward(state, out) == [phrases |-> out.phrases, state |-> state + 1]

(* One record per pipeline call made in this request: what went in         *)
(* (frame length, state, is_last) and what came back                        *)
Call(chunk, state, is_last, out, new_state) ==
    [n |-> Len(chunk), state |-> state, is_last |-> is_last,
     ok |-> out.ok, phrases |-> out.phrases, new_state |-> new_state]

(* the loop over the frames: r = [err, phrases, state, calls] *)
RECURSIVE ForwardLoop(_, _, _, _)
ForwardLoop(frames, outs, i, r) ==
    IF i > Len(frames) THEN r
    ELSE IF ~outs[i].ok
    THEN [r EXCEPT !.err = "Exception",
                   !.calls = Append(r.calls,
                                    Call(frames[i].chunk, r.state, frames[i].is_last,
                                         outs[i], r.state))]
    ELSE LET f == pipeline_forward(r.state, outs[i])
         IN  ForwardLoop(frames, outs, i + 1,
                         [err |-> "",
                          phrases |-> r.phrases \o f.phrases,
                          state |-> f.state,
                          calls |-> Append(r.calls,
                                           Call(frames[i].chunk, r.state, frames[i].is_last,
                                                outs[i], f.state))])

NoCalls(e, state) == [err |-> e, phrases |-> <<>>, state |-> state, calls |-> <<>>]

(* transcribe_streaming calling pipeline.forward(chunk, state, ...) on      *)
(* every frame, with the state the request came with                        *)
Processor_transcribe_streaming_restarts_state(isLoaded, audio, state, outs) ==
    IF ~isLoaded THEN NoCalls("ModelNotLoadedError", state)
    ELSE IF ~audio.decodable THEN NoCalls("Exception", state)
    ELSE LET r == ForwardLoop(Frames(audio.samples), outs, 1, NoCalls("", state))
         IN  [r EXCEPT !.calls = [i \in DOMAIN r.calls |->
                                     [r.calls[i] EXCEPT !.state = state,
                                                        !.new_state = IF r.calls[i].ok
                                                                      THEN state + 1
                                                                      ELSE state]],
                       !.state = IF r.err = "" THEN state + 1 ELSE state]

(* AudioProcessor.transcribe_streaming, under @require_model *)
Processor_transcribe_streaming(isLoaded, audio, state, outs) ==
    IF ~isLoaded THEN NoCalls("ModelNotLoadedError", state)
    ELSE IF ~audio.decodable THEN NoCalls("Exception", state)
    ELSE ForwardLoop(Frames(audio.samples), outs, 1, NoCalls("", state))

(* AudioProcessor.finalize_streaming: new_phrases, _ = pipeline.finalize(state) *)
Processor_finalize_streaming(isLoaded, state, out) ==
    IF ~isLoaded THEN NoCalls("ModelNotLoadedError", state)
    ELSE IF ~out.ok
    THEN [NoCalls("Exception", state) EXCEPT !.calls = << Call(<<>>, state, TRUE, out, state) >>]
    ELSE [err |-> "", phrases |-> out.phrases, state |-> state,
          calls |-> << Call(<<>>, state, TRUE, out, state) >>]

----------------------------------------------------------------------------
(* services/audio_service.py: AudioService *)

transcribe_streaming(isLoaded, audio, state, outs) ==
    IF ~isLoaded THEN NoCalls("ModelNotLoadedError", state)
    ELSE Processor_transcribe_streaming(isLoaded, audio, state, outs)

finalize_streaming(isLoaded, state, out) ==
    IF ~isLoaded THEN NoCalls("ModelNotLoadedError", state)
    ELSE Processor_finalize_streaming(isLoaded, state, out)

----------------------------------------------------------------------------
(* services/streaming_service.py: StreamingService *)

SvcRet(S, v, calls) == [s |-> S, v |-> v, err |-> "", calls |-> calls]
SvcRaise(S, e, calls) == [s |-> S, v |-> <<>>, err |-> e, calls |-> calls]

(* stored_data -> (pipeline_state, accumulated): None gives (None, []),     *)
(* a 2-tuple gives its two parts                                            *)
Unpack(stored_data) ==
    IF ~stored_data.tuple THEN [st |-> NULL, acc |-> <<>>]
    ELSE [st |-> stored_data.st, acc |-> stored_data.acc]

(* accumulated_phrases = accumulated_phrases or []                          *)
(* accumulated_phrases.extend(new_phrases)                                  *)
(* MemoryStorage hands out the very list it holds, so extending a non-empty *)
(* list shows in the stored tuple at once ("or []" replaces an empty list   *)
(* by a fresh one); RedisStorage hands out an unpickled copy                *)
list_extend(S, state_id, stored_data, new_phrases) ==
    IF /\ S.kind = "memory"
       /\ state_id \in DOMAIN S.states
       /\ stored_data.tuple
       /\ stored_data.acc # <<>>
    THEN [S EXCEPT !.states[state_id].acc = @ \o new_phrases]
    ELSE S

create_session(S, t, state_id) ==
    LET c == create_state(S, t, state_id)
        u == update_state(c.s, t, state_id, Tuple(NULL, <<>>))
    IN  IF u.err # "" THEN SvcRaise(u.s, u.err, <<>>)
        ELSE SvcRet(u.s, state_id, <<>>)

(* process_chunk writing back what it has so far when the pipeline fails *)
process_chunk_commits_partial(S, t, isLoaded, state_id, audio, outs) ==
    IF ~state_exists(S, state_id)
    THEN SvcRaise(S, "StateNotFoundError", <<>>)
    ELSE LET g == get_state(S, t, state_id)
             stored == Unpack(g.v)
             tr == transcribe_streaming(isLoaded, audio, stored.st, outs)
             accumulated_phrases == stored.acc \o tr.phrases
             u == update_state(g.s, t, state_id, Tuple(tr.state, accumulated_phrases))
         IN  IF tr.err # "" THEN SvcRaise(u.s, tr.err, tr.calls)
             ELSE IF u.err # "" THEN SvcRaise(u.s, u.err, tr.calls)
             ELSE SvcRet(u.s, tr.phrases, tr.calls)

(* process_chunk returning the whole accumulated list instead of the new phrases *)
process_chunk_returns_history(S, t, isLoaded, state_id, audio, outs) ==
    IF ~state_exists(S, state_id)
    THEN SvcRaise(S, "StateNotFoundError", <<>>)
    ELSE LET g == get_state(S, t, state_id)
             stored == Unpack(g.v)
             tr == transcribe_streaming(isLoaded, audio, stored.st, outs)
         IN  IF tr.err # "" THEN SvcRaise(g.s, tr.err, tr.calls)
             ELSE LET accumulated_phrases == stored.acc \o tr.phrases
                      u == update_state(g.s, t, state_id, Tuple(tr.state, accumulated_phrases))
                  IN  IF u.err # "" THEN SvcRaise(u.s, u.err, tr.calls)
                      ELSE SvcRet(u.s, accumulated_phrases, tr.calls)

(* process_chunk writing back the pipeline state it read instead of new_state *)
process_chunk_keeps_state(S, t, isLoaded, state_id, audio, outs) ==
    IF ~state_exists(S, state_id)
    THEN SvcRaise(S, "StateNotFoundError", <<>>)
    ELSE LET g == get_state(S, t, state_id)
             stored == Unpack(g.v)
             tr == transcribe_streaming(isLoaded, audio, stored.st, outs)
         IN  IF tr.err # "" THEN SvcRaise(g.s, tr.err, tr.calls)
             ELSE LET accumulated_phrases == stored.acc \o tr.phrases
                      S2 == list_extend(g.s, state_id, g.v, tr.phrases)
                      u == update_state(S2, t, state_id, Tuple(stored.st, accumulated_phrases))
                  IN  IF u.err # "" THEN SvcRaise(u.s, u.err, tr.calls)
                      ELSE SvcRet(u.s, tr.phrases, tr.calls)

process_chunk(S, t, isLoaded, state_id, audio, outs) ==
    IF ~state_exists(S, state_id)
    THEN SvcRaise(S, "StateNotFoundError", <<>>)
    ELSE LET g == get_state(S, t, state_id)
             stored == Unpack(g.v)
             tr == transcribe_streaming(isLoaded, audio, stored.st, outs)
         IN  IF tr.err # "" THEN SvcRaise(g.s, tr.err, tr.calls)
             ELSE LET accumulated_phrases == stored.acc \o tr.phrases
                      S2 == list_extend(g.s, state_id, g.v, tr.phrases)
                      u == update_state(S2, t, state_id, Tuple(tr.state, accumulated_phrases))
                  IN  IF u.err # "" THEN SvcRaise(u.s, u.err, tr.calls)
                      ELSE SvcRet(u.s, tr.phrases, tr.calls)

(* (p.start_time, p.end_time) for p in accumulated *)
accumulated_keys(accumulated) ==
    { <<accumulated[i].start_time, accumulated[i].end_time>> : i \in 1..Len(accumulated) }

(* deduplication on the whole phrase (p not in accumulated) instead of its times *)
unique_final_phrases_by_equality(final_phrases, accumulated) ==
    SelectSeq(final_phrases,
              LAMBDA p : \A i \in 1..Len(accumulated) : accumulated[i] # p)

(* deduplication that also drops trailing phrases sharing their times with  *)
(* one another                                                              *)
unique_final_phrases_among_themselves(final_phrases, accumulated) ==
    SelectSeq(final_phrases,
              LAMBDA p :
                  /\ <<p.start_time, p.end_time>> \notin accumulated_keys(accumulated)
                  /\ Cardinality({ i \in 1..Len(final_phrases) :
                                     /\ final_phrases[i].start_time = p.start_time
                                     /\ final_phrases[i].end_time = p.end_time }) = 1)

(* [p for p in final_phrases if (p.start_time, p.end_time) not in accumulated_keys] *)
unique_final_phrases(final_phrases, accumulated) ==
    SelectSeq(final_phrases,
              LAMBDA p : <<p.start_time, p.end_time>> \notin accumulated_keys(accumulated))

finalize_session(S, t, isLoaded, state_id, out) ==
    IF ~state_exists(S, state_id)
    THEN SvcRaise(S, "StateNotFoundError", <<>>)
    ELSE LET g == get_state(S, t, state_id)
             stored == Unpack(g.v)
             fin == finalize_streaming(isLoaded, stored.st, out)
         IN  IF fin.err # "" THEN SvcRaise(g.s, fin.err, fin.calls)
             ELSE LET all_phrases == stored.acc \o unique_final_phrases(fin.phrases, stored.acc)
                  IN  SvcRet(delete_state(g.s, state_id), all_phrases, fin.calls)

----------------------------------------------------------------------------
(* utils/validators.py and routers/streaming.py: the HTTP handlers *)

(* validate_audio_file: the status of the HTTPException it raises, 0 if none *)
validate_audio_file(audio) ==
    IF audio.size = "empty" THEN 400
    ELSE IF audio.size = "oversize" THEN 413
    ELSE 0

(* the except clauses of the handlers, in order *)
StatusOf(err) ==
    IF err = "" THEN 200
    ELSE IF err = "StateNotFoundError" THEN 404
    ELSE IF err = "ModelNotLoadedError" THEN 503
    ELSE 500

Http(S, code, v, err, calls) == [s |-> S, code |-> code, v |-> v, err |-> err, calls |-> calls]

start_streaming(S, t, state_id) ==
    LET r == create_session(S, t, state_id)
    IN  Http(r.s, IF r.err = "" THEN 200 ELSE 500, r.v, r.err, r.calls)

(* the chunk handler fetching the session before it validates the upload *)
process_streaming_chunk_reads_first(S, t, isLoaded, state_id, audio, outs) ==
    LET g == get_state(S, t, state_id)
    IN  IF validate_audio_file(audio) # 0
        THEN Http(g.s, StatusOf("HTTPException"), <<>>, "HTTPException", <<>>)
        ELSE LET r == process_chunk(S, t, isLoaded, state_id, audio, outs)
             IN  Http(r.s, StatusOf(r.err), r.v, r.err, r.calls)

process_streaming_chunk(S, t, isLoaded, state_id, audio, outs) ==
    IF validate_audio_file(audio) # 0
    THEN Http(S, StatusOf("HTTPException"), <<>>, "HTTPException", <<>>)
    ELSE LET r == process_chunk(S, t, isLoaded, state_id, audio, outs)
         IN  Http(r.s, StatusOf(r.err), r.v, r.err, r.calls)

(* the finalize handler without its finally clause *)
finalize_streaming_handler_no_finally(S, t, isLoaded, state_id, out) ==
    LET r == finalize_session(S, t, isLoaded, state_id, out)
    IN  Http(r.s, StatusOf(r.err), r.v, r.err, r.calls)

finalize_streaming_handler(S, t, isLoaded, state_id, out) ==
    LET r == finalize_session(S, t, isLoaded, state_id, out)
        cleaned == IF state_exists(r.s, state_id) THEN delete_state(r.s, state_id) ELSE r.s
    IN  Http(cleaned, StatusOf(r.err), r.v, r.err, r.calls)

----------------------------------------------------------------------------
(* Inputs *)

Ones(n) == [i \in 1..n |-> 1]

(* uploads: empty, over the size limit, not decodable, or n decoded samples *)
AudioInputs ==
    { [size |-> "empty", decodable |-> FALSE, samples |-> <<>>],
      [size |-> "oversize", decodable |-> TRUE, samples |-> <<>>],
      [size |-> "ok", decodable |-> FALSE, samples |-> <<>>] }
    \cup { [size |-> "ok", decodable |-> TRUE, samples |-> Ones(n)] : n \in SampleCounts }

(* what the pipeline does on one frame: raise, or return at most one phrase *)
ForwardOuts ==
    { [ok |-> FALSE, phrases |-> <<>>] }
    \cup { [ok |-> TRUE, phrases |-> p] : p \in SeqsUpTo(ForwardPhrases, 1) }

(* what the pipeline does on the frames of one request: one outcome for     *)
(* each frame it is called on; it is not called again once it has raised,   *)
(* and not at all when the request fails before reaching it                 *)
PipelineOuts(S, isLoaded, id, audio, valid) ==
    LET n == IF /\ valid
                /\ state_exists(S, id)
                /\ isLoaded
                /\ audio.decodable
             THEN Len(Frames(audio.samples))
             ELSE 0
    IN  { outs \in [1..n -> ForwardOuts] :
            \A i \in 1..n : \A j \in 1..n : (i < j /\ ~outs[i].ok) => ~outs[j].ok }

(* what pipeline.finalize does: raise, or return the trailing phrases *)
FinalizeOuts ==
    { [ok |-> FALSE, phrases |-> <<>>] }
    \cup { [ok |-> TRUE, phrases |-> p] : p \in SeqsUpTo(FinalPhrases, MaxFinal) }

(* payloads written through the storage interface directly *)
StorePayloads ==
    { NonePayload, Tuple(NULL, <<>>), Tuple(1, << Phrase("a", 0, 1) >>) }

(* the storage stays within the bounds of the model: over all sessions at   *)
(* most MaxAcc accumulated phrases and MaxDec frames consumed               *)
RECURSIVE SumOver(_, _, _)
SumOver(db, K, field) ==
    IF K = {} THEN 0
    ELSE LET k == CHOOSE x \in K : TRUE
         IN  (IF field = "acc" THEN Len(db[k].acc) ELSE db[k].st)
             + SumOver(db, K \ {k}, field)

WithinBounds(S) ==
    LET db == IF S.kind = "memory" THEN S.states ELSE [k \in DOMAIN S.keys |-> S.keys[k].data]
    IN  /\ SumOver(db, DOMAIN db, "acc") <= MaxAcc
        /\ SumOver(db, DOMAIN db, "st") <= MaxDec

----------------------------------------------------------------------------
(* State *)

(* resp: the call made last (op, id) and its outcome: the exception raised  *)
(* (err), the HTTP status (code), the phrases returned (v), the pipeline    *)
(* calls made (calls), and for the storage interface the payload (data),    *)
(* the boolean (flag) or the count (count) returned; for update_state data  *)
(* is the payload passed                                                    *)
NoResp ==
    [op |-> "init", id |-> 0, err |-> "", code |-> 0, v |-> <<>>, calls |-> <<>>,
     data |-> NonePayload, flag |-> FALSE, count |-> 0]

Resp(op, id, r, code) ==
    [NoResp EXCEPT !.op = op, !.id = id, !.err = r.err, !.code = code,
                   !.v = IF op \in {"create_session", "start_streaming"} THEN <<>> ELSE r.v,
                   !.calls = r.calls]

(* the callers of SpecOverlap, and a caller with no call under way; a call  *)
(* under way holds the locals of process_chunk: state_id (id),              *)
(* pipeline_state (st), accumulated_phrases (acc; aliased when it is the    *)
(* list object the MemoryStorage holds), new_phrases (phrases), new_state   *)
(* (state)                                                                  *)
Callers == { "c1", "c2" }
Idle ==
    [pc |-> "idle", id |-> 0, st |-> NULL, read |-> <<>>, acc |-> <<>>, aliased |-> FALSE,
     phrases |-> <<>>, state |-> NULL]

Init ==
    /\ storage \in { create_storage("memory"), create_storage("redis") }
    /\ now = 0
    /\ loaded = TRUE      \* AudioProcessor() loads the model or fails to construct
    /\ nextId = 1
    /\ resp = NoResp
    /\ inflight = [c \in Callers |-> Idle]
    /\ reachable = TRUE

(* time passes; the Redis server expires keys on its own *)
Tick ==
    /\ now < MaxTime
    /\ now' = now + 1
    /\ storage' = IF storage.kind = "redis" THEN Redis_expire(storage, now + 1) ELSE storage
    /\ resp' = [NoResp EXCEPT !.op = "tick"]
    /\ UNCHANGED <<loaded, nextId, inflight, reachable>>

----------------------------------------------------------------------------
(* SpecStore: the StateStorage interface *)

StoreCall(op, id, r) ==
    /\ storage' = r.s
    /\ resp' = [NoResp EXCEPT !.op = op, !.id = id, !.err = r.err,
                              !.data = IF op \in {"get_state", "update_state"}
                                       THEN r.v ELSE NonePayload,
                              !.flag = IF op = "state_exists" THEN r.v ELSE FALSE,
                              !.count = IF op = "cleanup_expired" THEN r.v ELSE 0]
    /\ UNCHANGED <<now, loaded, inflight, reachable>>

CreateState ==
    /\ nextId <= MaxIds
    /\ StoreCall("create_state", nextId, create_state(storage, now, nextId))
    /\ nextId' = nextId + 1

GetState ==
    \E id \in Ids :
        /\ StoreCall("get_state", id, get_state(storage, now, id))
        /\ UNCHANGED nextId

UpdateState ==
    \E id \in Ids, state \in StorePayloads :
        /\ StoreCall("update_state", id,
                     [update_state(storage, now, id, state) EXCEPT !.v = state])
        /\ UNCHANGED nextId

DeleteState ==
    \E id \in Ids :
        /\ StoreCall("delete_state", id, Ret(delete_state(storage, id), 0))
        /\ UNCHANGED nextId

StateExists ==
    \E id \in Ids :
        /\ StoreCall("state_exists", id, Ret(storage, state_exists(storage, id)))
        /\ UNCHANGED nextId

CleanupExpired ==
    /\ StoreCall("cleanup_expired", 0, cleanup_expired(storage, now))
    /\ UNCHANGED nextId

NextStore ==
    \/ CreateState
    \/ GetState
    \/ UpdateState
    \/ DeleteState
    \/ StateExists
    \/ CleanupExpired
    \/ Tick

SpecStore == Init /\ [][NextStore]_vars

----------------------------------------------------------------------------
(* SpecService: the StreamingService methods *)

SvcCall(op, id, r) ==
    /\ WithinBounds(r.s)
    /\ storage' = r.s
    /\ resp' = Resp(op, id, r, 0)
    /\ UNCHANGED <<now, loaded, inflight, reachable>>

CreateSession ==
    /\ nextId <= MaxIds
    /\ SvcCall("create_session", nextId, create_session(storage, now, nextId))
    /\ nextId' = nextId + 1

ProcessChunk ==
    \E id \in Ids, audio \in AudioInputs :
        \E outs \in PipelineOuts(storage, loaded, id, audio, TRUE) :
            /\ SvcCall("process_chunk", id, process_chunk(storage, now, loaded, id, audio, outs))
            /\ UNCHANGED nextId

FinalizeSession ==
    \E id \in Ids, out \in FinalizeOuts :
        /\ SvcCall("finalize_session", id, finalize_session(storage, now, loaded, id, out))
        /\ UNCHANGED nextId

NextService ==
    \/ CreateSession
    \/ ProcessChunk
    \/ FinalizeSession
    \/ Tick

SpecService == Init /\ [][NextService]_vars

----------------------------------------------------------------------------
(* Spec: the HTTP handlers of routers/streaming.py *)

HttpCall(op, id, r) ==
    /\ WithinBounds(r.s)
    /\ storage' = r.s
    /\ resp' = Resp(op, id, r, r.code)
    /\ UNCHANGED <<now, loaded, inflight, reachable>>

StartStreaming ==
    /\ nextId <= MaxIds
    /\ HttpCall("start_streaming", nextId, start_streaming(storage, now, nextId))
    /\ nextId' = nextId + 1

ProcessStreamingChunk ==
    \E id \in Ids, audio \in AudioInputs :
        \E outs \in PipelineOuts(storage, loaded, id, audio, validate_audio_file(audio) = 0) :
            /\ HttpCall("process_streaming_chunk", id,
                        process_streaming_chunk(storage, now, loaded, id, audio, outs))
            /\ UNCHANGED nextId

FinalizeStreaming ==
    \E id \in Ids, out \in FinalizeOuts :
        /\ HttpCall("finalize_streaming", id,
                    finalize_streaming_handler(storage, now, loaded, id, out))
        /\ UNCHANGED nextId

Next ==
    \/ StartStreaming
    \/ ProcessStreamingChunk
    \/ FinalizeStreaming
    \/ Tick

Spec == Init /\ [][Next]_vars

----------------------------------------------------------------------------
(* SpecOverlap: process_chunk takes no lock, so a second call can run       *)
(* between the get_state and the update_state of a first one (worker        *)
(* processes sharing one Redis server, threads sharing one MemoryStorage);  *)
(* RedisStorage.update_state is itself several commands to the server       *)

(* the uploads of the overlapping calls: not decodable, or one frame; the   *)
(* pipeline calls they make are not recorded                                *)
OverlapAudio ==
    { a \in AudioInputs : a.size = "ok" /\ Len(a.samples) \in {0, ChunkSize} /\ (a.decodable <=> a.samples # <<>>)}

(* the locals of process_chunk once audio_service.transcribe_streaming has returned *)
Begun(S, state_id, stored, tr) ==
    [pc |-> "read", id |-> state_id, st |-> stored.st, read |-> stored.acc,
     acc |-> stored.acc, aliased |-> (S.kind = "memory" /\ stored.acc # <<>>),
     phrases |-> tr.phrases, state |-> tr.state]

(* a call returns or raises *)
OverlapReturn(c, r, others) ==
    /\ WithinBounds(r.s)
    /\ storage' = r.s
    /\ resp' = Resp("process_chunk", inflight[c].id, r, 0)
    /\ inflight' = [others EXCEPT ![c] = Idle]
    /\ UNCHANGED <<now, loaded, nextId, reachable>>

(* a call goes on *)
OverlapStep(c, S, op, locals) ==
    /\ storage' = S
    /\ resp' = [NoResp EXCEPT !.op = op, !.id = locals.id]
    /\ inflight' = [inflight EXCEPT ![c] = locals]
    /\ UNCHANGED <<now, loaded, nextId, reachable>>

(* process_chunk from its first line to the return of transcribe_streaming *)
(* a new call is named c1 unless c1 is under way *)
OverlapRead(c) ==
    /\ inflight[c].pc = "idle"
    /\ c = "c2" => inflight["c1"].pc # "idle"
    /\ \E id \in 1..OverlapIds, audio \in OverlapAudio :
        \E outs \in PipelineOuts(storage, loaded, id, audio, TRUE) :
            IF ~state_exists(storage, id)
            THEN OverlapReturn(c, SvcRaise(storage, "StateNotFoundError", <<>>),
                               [inflight EXCEPT ![c].id = id])
            ELSE LET g == get_state(storage, now, id)
                     stored == Unpack(g.v)
                     tr == transcribe_streaming(loaded, audio, stored.st, outs)
                 IN  IF tr.err # ""
                     THEN OverlapReturn(c, SvcRaise(g.s, tr.err, <<>>),
                                        [inflight EXCEPT ![c].id = id])
                     ELSE OverlapStep(c, g.s, "get_state", Begun(g.s, id, stored, tr))

(* the list objects after caller c has extended its own: a caller holding   *)
(* the same object sees the new elements; once the storage holds another    *)
(* object, the callers holding the old one no longer share it               *)
Aliases(c, accumulated_phrases, replaced) ==
    [d \in Callers |->
        IF d # c /\ inflight[d].pc # "idle" /\ inflight[d].id = inflight[c].id
                /\ inflight[d].aliased
        THEN IF inflight[c].aliased THEN [inflight[d] EXCEPT !.acc = accumulated_phrases]
             ELSE IF replaced THEN [inflight[d] EXCEPT !.aliased = FALSE]
             ELSE inflight[d]
        ELSE inflight[d]]

(* accumulated_phrases.extend(new_phrases), then storage.update_state: all  *)
(* of it on a MemoryStorage, its exists check on a RedisStorage             *)
OverlapUpdate(c) ==
    LET me == inflight[c]
        accumulated_phrases == me.acc \o me.phrases
    IN  /\ me.pc = "read"
        /\ IF storage.kind = "memory"
           THEN LET S2 == IF me.aliased /\ me.id \in DOMAIN storage.states
                          THEN [storage EXCEPT !.states[me.id].acc = accumulated_phrases]
                          ELSE storage
                    u == Memory_update_state(S2, now, me.id, Tuple(me.state, accumulated_phrases))
                IN  IF u.err # ""
                    THEN OverlapReturn(c, SvcRaise(u.s, u.err, <<>>),
                                       Aliases(c, accumulated_phrases, FALSE))
                    ELSE OverlapReturn(c, SvcRet(u.s, me.phrases, <<>>),
                                       Aliases(c, accumulated_phrases, TRUE))
           ELSE IF ~Redis_state_exists(storage, me.id)
                THEN OverlapReturn(c, SvcRaise(storage, "KeyError", <<>>), inflight)
                ELSE OverlapStep(c, storage, "exists", [me EXCEPT !.pc = "checked"])

(* RedisStorage.update_state after its exists check *)
OverlapWrite(c) ==
    LET me == inflight[c]
        u == Redis_update_state_write(storage, now, me.id, Tuple(me.state, me.acc \o me.phrases))
    IN  /\ me.pc = "checked"
        /\ OverlapReturn(c, SvcRet(u.s, me.phrases, <<>>), inflight)

(* finalize_session called meanwhile, the pipeline returning no trailing phrase *)
OverlapFinalize ==
    \E id \in 1..OverlapIds, out \in { o \in FinalizeOuts : o.phrases = <<>> } :
        /\ SvcCall("finalize_session", id,
                   [finalize_session(storage, now, loaded, id, out) EXCEPT !.calls = <<>>])
        /\ UNCHANGED nextId

OverlapCreate ==
    /\ nextId <= OverlapIds
    /\ CreateSession

NextOverlap ==
    \/ OverlapCreate
    \/ \E c \in Callers : OverlapRead(c)
    \/ \E c \in Callers : OverlapUpdate(c)
    \/ \E c \in Callers : OverlapWrite(c)
    \/ OverlapFinalize
    \/ Tick

SpecOverlap == Init /\ [][NextOverlap]_vars

----------------------------------------------------------------------------
(* SpecOutage: the HTTP handlers of routers/streaming.py with a Redis       *)
(* server that can be unreachable for the length of a request               *)

(* the storage as the handlers find it *)
Serving == IF reachable THEN storage ELSE Unreachable(storage)

OutageCall(op, id, r) ==
    LET S == IF r.s.kind = "unreachable" THEN r.s.behind ELSE r.s
    IN  /\ WithinBounds(S)
        /\ storage' = S
        /\ resp' = Resp(op, id, r, r.code)
        /\ UNCHANGED <<now, loaded, inflight, reachable>>

OutageStartStreaming ==
    /\ nextId <= MaxIds
    /\ OutageCall("start_streaming", nextId, start_streaming(Serving, now, nextId))
    /\ nextId' = nextId + 1

OutageProcessStreamingChunk ==
    \E id \in Ids, audio \in AudioInputs :
        \E outs \in PipelineOuts(Serving, loaded, id, audio, validate_audio_file(audio) = 0) :
            /\ OutageCall("process_streaming_chunk", id,
                          process_streaming_chunk(Serving, now, loaded, id, audio, outs))
            /\ UNCHANGED nextId

OutageFinalizeStreaming ==
    \E id \in Ids, out \in FinalizeOuts :
        /\ OutageCall("finalize_streaming", id,
                      finalize_streaming_handler(Serving, now, loaded, id, out))
        /\ UNCHANGED nextId

(* the connection to the server is lost, and comes back *)
Disconnect ==
    /\ storage.kind = "redis"
    /\ reachable
    /\ reachable' = FALSE
    /\ resp' = [NoResp EXCEPT !.op = "disconnect"]
    /\ UNCHANGED <<storage, now, loaded, nextId, inflight>>

Reconnect ==
    /\ ~reachable
    /\ reachable' = TRUE
    /\ resp' = [NoResp EXCEPT !.op = "reconnect"]
    /\ UNCHANGED <<storage, now, loaded, nextId, inflight>>

NextOutage ==
    \/ OutageStartStreaming
    \/ OutageProcessStreamingChunk
    \/ OutageFinalizeStreaming
    \/ Disconnect
    \/ Reconnect
    \/ Tick

SpecOutage == Init /\ [][NextOutage]_vars

----------------------------------------------------------------------------
(* SpecSegmenter: AudioProcessor.transcribe_streaming on one decoded buffer *)
(* of any length up to MaxSamples, the pipeline returning no phrase; resp   *)
(* holds the buffer, the frames cut from it and the pipeline calls made     *)

MaxSamples == 2 * ChunkSize + 1
SampleValues == { 0, 1, 2 }
Buffers == SeqsUpTo(SampleValues, MaxSamples)

Segmented(op, audio, frames, calls) ==
    [op |-> op, audio |-> audio, frames |-> frames, calls |-> calls]

InitSegmenter ==
    /\ storage = create_storage("memory")
    /\ now = 0
    /\ loaded = TRUE
    /\ nextId = 1
    /\ resp \in { Segmented("init", audio, <<>>, <<>>) : audio \in Buffers }
    /\ inflight = [c \in Callers |-> Idle]
    /\ reachable = TRUE

TranscribeStreaming ==
    LET frames == Frames(resp.audio)
        outs == [i \in 1..Len(frames) |-> [ok |-> TRUE, phrases |-> <<>>]]
        tr == Processor_transcribe_streaming(
                  loaded, [size |-> "ok", decodable |-> TRUE, samples |-> resp.audio],
                  NULL, outs)
    IN  /\ resp.op = "init"
        /\ resp' = Segmented("transcribe_streaming", resp.audio, frames, tr.calls)
        /\ UNCHANGED <<storage, now, loaded, nextId, inflight, reachable>>

NextSegmenter == TranscribeStreaming

SpecSegmenter == InitSegmenter /\ [][NextSegmenter]_vars

----------------------------------------------------------------------------
(* SpecAuth: settings.api_key is set; every request carries the right       *)
(* X-API-Key header, a wrong one or none and passes DocsAuthMiddleware on   *)
(* its way to the route.  resp.flag tells whether verify_api_key accepts    *)
(* the header of the request                                                *)

NoKey == "None"
ApiKey == "secret"
Headers == { NoKey, ApiKey, "wrong" }
DocsPaths == { "/docs", "/redoc", "/openapi.json" }

(* utils/auth.py; FALSE stands for HTTPException(401).  No route and no     *)
(* router declares it as a dependency                                       *)
verify_api_key(api_key, x_api_key) ==
    IF api_key = NoKey THEN TRUE
    ELSE ~(x_api_key = NoKey \/ x_api_key # api_key)

(* DocsAuthMiddleware.dispatch: 401, or 0 for call_next(request) *)
DocsAuthMiddleware_dispatch(api_key, path, x_api_key) ==
    IF api_key = NoKey THEN 0
    ELSE IF path \in DocsPaths /\ x_api_key # api_key THEN 401
    ELSE 0

(* a request to path with header x_api_key, r being what the route answers *)
Request(path, x_api_key, r) ==
    IF DocsAuthMiddleware_dispatch(ApiKey, path, x_api_key) = 401
    THEN Http(storage, 401, <<>>, "HTTPException", <<>>)
    ELSE r

(* the uploads and pipeline outcomes of SpecAuth: an empty upload or one    *)
(* frame of samples; finalize raising or returning no trailing phrase       *)
AuthAudio ==
    { a \in AudioInputs : a.size = "empty" \/ (a.decodable /\ Len(a.samples) = ChunkSize) }

AuthFinalizeOuts == { out \in FinalizeOuts : out.phrases = <<>> }

AuthCall(op, id, x_api_key, r) ==
    /\ WithinBounds(r.s)
    /\ storage' = r.s
    /\ resp' = [Resp(op, id, r, r.code) EXCEPT !.flag = verify_api_key(ApiKey, x_api_key)]
    /\ UNCHANGED <<now, loaded, inflight, reachable>>

AuthStartStreaming ==
    /\ nextId <= MaxIds
    /\ \E x_api_key \in Headers :
          AuthCall("start_streaming", nextId, x_api_key,
                   Request("/transcribe/streaming", x_api_key,
                           start_streaming(storage, now, nextId)))
    /\ nextId' = nextId + 1

AuthProcessStreamingChunk ==
    \E id \in Ids, audio \in AuthAudio, x_api_key \in Headers :
        \E outs \in PipelineOuts(storage, loaded, id, audio, validate_audio_file(audio) = 0) :
            /\ AuthCall("process_streaming_chunk", id, x_api_key,
                        Request("/transcribe/streaming/chunk", x_api_key,
                                process_streaming_chunk(storage, now, loaded, id, audio, outs)))
            /\ UNCHANGED nextId

AuthFinalizeStreaming ==
    \E id \in Ids, out \in AuthFinalizeOuts, x_api_key \in Headers :
        /\ AuthCall("finalize_streaming", id, x_api_key,
                    Request("/transcribe/streaming/finalize", x_api_key,
                            finalize_streaming_handler(storage, now, loaded, id, out)))
        /\ UNCHANGED nextId

(* GET of a documentation page, served by FastAPI itself *)
AuthGetDocs ==
    \E path \in DocsPaths, x_api_key \in Headers :
        /\ AuthCall("docs", 0, x_api_key,
                    Request(path, x_api_key, Http(storage, 200, <<>>, "", <<>>)))
        /\ UNCHANGED nextId

NextAuth ==
    \/ AuthStartStreaming
    \/ AuthProcessStreamingChunk
    \/ AuthFinalizeStreaming
    \/ AuthGetDocs
    \/ Tick

SpecAuth == Init /\ [][NextAuth]_vars

----------------------------------------------------------------------------
(* SpecSteps: one caller's process_chunk taken statement by statement after *)
(* the decoder has returned: accumulated_phrases.extend(new_phrases), then  *)
(* storage.update_state; finalize_session may come in between               *)

StepRead == OverlapRead("c1")

(* accumulated_phrases = accumulated_phrases or []                          *)
(* accumulated_phrases.extend(new_phrases)                                  *)
(* the list read from a MemoryStorage, unless empty, is the list it holds   *)
StepExtend ==
    LET me == inflight["c1"]
    IN  /\ me.pc = "read"
        /\ OverlapStep("c1",
                       IF me.aliased
                       THEN list_extend(storage, me.id, Tuple(me.st, me.acc), me.phrases)
                       ELSE storage,
                       "extend",
                       [me EXCEPT !.pc = "extended", !.acc = me.acc \o me.phrases])

(* self.storage.update_state(state_id, (new_state, accumulated_phrases)) *)
StepUpdate ==
    LET me == inflight["c1"]
        u == update_state(storage, now, me.id, Tuple(me.state, me.acc))
    IN  /\ me.pc = "extended"
        /\ IF u.err # ""
           THEN OverlapReturn("c1", SvcRaise(u.s, u.err, <<>>), inflight)
           ELSE OverlapReturn("c1", SvcRet(u.s, me.phrases, <<>>), inflight)

NextSteps ==
    \/ OverlapCreate
    \/ StepRead
    \/ StepExtend
    \/ StepUpdate
    \/ OverlapFinalize
    \/ Tick

SpecSteps == Init /\ [][NextSteps]_vars

----------------------------------------------------------------------------
(* SpecUpload: sessions are started and chunks uploaded; resp.count is the  *)
(* status of the HTTPException validate_audio_file raised for the upload,   *)
(* 0 when it raised none                                                    *)

UploadAudio ==
    { a \in AudioInputs : a.size # "ok" \/ (a.decodable /\ Len(a.samples) = ChunkSize) }

UploadChunk ==
    \E id \in Ids, audio \in UploadAudio :
        \E outs \in PipelineOuts(storage, loaded, id, audio, validate_audio_file(audio) = 0) :
            LET r == process_streaming_chunk(storage, now, loaded, id, audio, outs)
            IN  /\ WithinBounds(r.s)
                /\ storage' = r.s
                /\ resp' = [Resp("process_streaming_chunk", id, r, r.code)
                               EXCEPT !.count = validate_audio_file(audio)]
                /\ UNCHANGED <<now, loaded, nextId, inflight, reachable>>

NextUpload ==
    \/ StartStreaming
    \/ UploadChunk
    \/ Tick

SpecUpload == Init /\ [][NextUpload]_vars

----------------------------------------------------------------------------
(* main.py: shutdown_event.  r = [s, count, err]: the storage afterwards,   *)
(* len(active_sessions), and the RedisError the storage logged and          *)
(* swallowed, if any; the handler itself never raises                       *)

(* for state_id in active_sessions: storage.delete_state(state_id) *)
RECURSIVE DeleteEach(_, _)
DeleteEach(S, active_sessions) ==
    IF active_sessions = {} THEN S
    ELSE LET state_id == CHOOSE x \in active_sessions : TRUE
         IN  DeleteEach(delete_state(S, state_id), active_sessions \ {state_id})

(* the handler leaving its loop after the first session *)
shutdown_event_deletes_one(S) ==
    LET active_sessions == get_all_state_ids(S)
    IN  [s |-> IF active_sessions = {} THEN S
               ELSE delete_state(S, CHOOSE x \in active_sessions : TRUE),
         count |-> Cardinality(active_sessions),
         err |-> IF S.kind = "unreachable" THEN "RedisError" ELSE ""]

shutdown_event(S) ==
    LET active_sessions == get_all_state_ids(S)
    IN  [s |-> DeleteEach(S, active_sessions),
         count |-> Cardinality(active_sessions),
         err |-> IF S.kind = "unreachable" THEN "RedisError" ELSE ""]

ShutdownEvent ==
    LET r == shutdown_event(Serving)
    IN  /\ storage' = IF r.s.kind = "unreachable" THEN r.s.behind ELSE r.s
        /\ resp' = [NoResp EXCEPT !.op = "shutdown", !.err = r.err, !.count = r.count]
        /\ UNCHANGED <<now, loaded, nextId, inflight, reachable>>

NextShutdown ==
    \/ OutageStartStreaming
    \/ ShutdownEvent
    \/ Disconnect
    \/ Reconnect
    \/ Tick

SpecShutdown == Init /\ [][NextShutdown]_vars

----------------------------------------------------------------------------
(* SpecReclaim: a MemoryStorage that nobody deletes from, whose callers     *)
(* keep calling create_state or get_state                                   *)

InitReclaim == Init /\ storage.kind = "memory"

NextReclaim ==
    \/ CreateState
    \/ GetState
    \/ UpdateState
    \/ StateExists
    \/ Tick

SpecReclaim ==
    InitReclaim /\ [][NextReclaim]_vars /\ WF_vars(CreateState \/ GetState)

----------------------------------------------------------------------------
(* SpecThreads: MemoryStorage has no lock; update_state and delete_state    *)
(* called from two threads run statement by statement, each dict operation  *)
(* being atomic.  inflight holds, per thread, the statement it is at (pc)   *)
(* and the arguments of its call                                            *)

ThreadIdle == [pc |-> "idle", id |-> 0, state |-> NonePayload]

(* self._states[state_id] = state *)
Memory_update_state_set(S, state_id, state) ==
    [S EXCEPT !.states = Put(S.states, state_id, state)]

(* if state_id in self._timestamps: self._timestamps[state_id] = datetime.now() *)
Memory_update_state_touch(S, t, state_id) ==
    IF state_id \in DOMAIN S.timestamps
    THEN [S EXCEPT !.timestamps = Put(S.timestamps, state_id, t)]
    ELSE S

(* self._states.pop(state_id, None) *)
Memory_delete_state_pop_state(S, state_id) ==
    [S EXCEPT !.states = Pop(S.states, state_id)]

(* self._timestamps.pop(state_id, None) *)
Memory_delete_state_pop_timestamp(S, state_id) ==
    [S EXCEPT !.timestamps = Pop(S.timestamps, state_id)]

InitThreads ==
    /\ storage = create_storage("memory")
    /\ now = 0
    /\ loaded = TRUE
    /\ nextId = 1
    /\ resp = NoResp
    /\ inflight = [c \in Callers |-> ThreadIdle]
    /\ reachable = TRUE

ThreadStep(c, S, op, err, locals) ==
    /\ storage' = S
    /\ inflight' = [inflight EXCEPT ![c] = locals]
    /\ resp' = [NoResp EXCEPT !.op = op, !.id = locals.id, !.err = err]
    /\ UNCHANGED <<now, loaded, nextId, reachable>>

(* update_state: if state_id not in self._states: raise KeyError *)
ThreadUpdateCheck(c) ==
    /\ inflight[c].pc = "idle"
    /\ \E id \in Ids, state \in StorePayloads :
          IF ~Memory_state_exists(storage, id)
          THEN ThreadStep(c, storage, "update_state", "KeyError", ThreadIdle)
          ELSE ThreadStep(c, storage, "update_state_check", "",
                          [pc |-> "update_set", id |-> id, state |-> state])

ThreadUpdateSet(c) ==
    /\ inflight[c].pc = "update_set"
    /\ ThreadStep(c, Memory_update_state_set(storage, inflight[c].id, inflight[c].state),
                  "update_state_set", "", [inflight[c] EXCEPT !.pc = "update_touch"])

ThreadUpdateTouch(c) ==
    /\ inflight[c].pc = "update_touch"
    /\ ThreadStep(c, Memory_update_state_touch(storage, now, inflight[c].id),
                  "update_state", "", ThreadIdle)

ThreadDeletePopState(c) ==
    /\ inflight[c].pc = "idle"
    /\ \E id \in Ids :
          ThreadStep(c, Memory_delete_state_pop_state(storage, id), "delete_state_pop", "",
                     [pc |-> "delete_timestamp", id |-> id, state |-> NonePayload])

ThreadDeletePopTimestamp(c) ==
    /\ inflight[c].pc = "delete_timestamp"
    /\ ThreadStep(c, Memory_delete_state_pop_timestamp(storage, inflight[c].id),
                  "delete_state", "", ThreadIdle)

(* create_state, while no other call is under way *)
ThreadCreateState ==
    /\ \A c \in Callers : inflight[c].pc = "idle"
    /\ CreateState

NextThreads ==
    \/ ThreadCreateState
    \/ \E c \in Callers : ThreadUpdateCheck(c)
    \/ \E c \in Callers : ThreadUpdateSet(c)
    \/ \E c \in Callers : ThreadUpdateTouch(c)
    \/ \E c \in Callers : ThreadDeletePopState(c)
    \/ \E c \in Callers : ThreadDeletePopTimestamp(c)
    \/ Tick

SpecThreads == InitThreads /\ [][NextThreads]_vars

----------------------------------------------------------------------------
(* SpecPair: one MemoryStorage and one RedisStorage, created with the same  *)
(* timeout, receive the same calls at the same times; storage holds both    *)
(* and resp the answer of each                                              *)

(* what a call of the interface answers: the exception, or the value of its kind *)
Answer(op, r) ==
    [err |-> r.err,
     data |-> IF op = "get_state" /\ r.err = "" THEN r.v ELSE NonePayload,
     flag |-> IF op = "state_exists" THEN r.v ELSE FALSE,
     count |-> IF op = "cleanup_expired" THEN r.v ELSE 0]

InitPair ==
    /\ storage = [kind |-> "pair", memory |-> create_storage("memory"),
                                   redis |-> create_storage("redis")]
    /\ now = 0
    /\ loaded = TRUE
    /\ nextId = 1
    /\ resp = [op |-> "init", id |-> 0, memory |-> Answer("init", Ret(0, 0)),
                                        redis |-> Answer("init", Ret(0, 0))]
    /\ inflight = [c \in Callers |-> Idle]
    /\ reachable = TRUE

PairCall(op, id, m, r) ==
    /\ storage' = [kind |-> "pair", memory |-> m.s, redis |-> r.s]
    /\ resp' = [op |-> op, id |-> id, memory |-> Answer(op, m), redis |-> Answer(op, r)]
    /\ UNCHANGED <<now, loaded, inflight, reachable>>

PairCreateState ==
    /\ nextId <= MaxIds
    /\ PairCall("create_state", nextId, create_state(storage.memory, now, nextId),
                                        create_state(storage.redis, now, nextId))
    /\ nextId' = nextId + 1

PairGetState ==
    \E id \in Ids :
        /\ PairCall("get_state", id, get_state(storage.memory, now, id),
                                     get_state(storage.redis, now, id))
        /\ UNCHANGED nextId

PairUpdateState ==
    \E id \in Ids, state \in StorePayloads :
        /\ PairCall("update_state", id, update_state(storage.memory, now, id, state),
                                        update_state(storage.redis, now, id, state))
        /\ UNCHANGED nextId

PairDeleteState ==
    \E id \in Ids :
        /\ PairCall("delete_state", id, Ret(delete_state(storage.memory, id), 0),
                                        Ret(delete_state(storage.redis, id), 0))
        /\ UNCHANGED nextId

PairStateExists ==
    \E id \in Ids :
        /\ PairCall("state_exists", id,
                    Ret(storage.memory, state_exists(storage.memory, id)),
                    Ret(storage.redis, state_exists(storage.redis, id)))
        /\ UNCHANGED nextId

(* time passes for both; the Redis server expires its keys *)
PairTick ==
    /\ now < MaxTime
    /\ now' = now + 1
    /\ storage' = [storage EXCEPT !.redis = Redis_expire(@, now + 1)]
    /\ resp' = [op |-> "tick", id |-> 0, memory |-> Answer("tick", Ret(0, 0)),
                                         redis |-> Answer("tick", Ret(0, 0))]
    /\ UNCHANGED <<loaded, nextId, inflight, reachable>>

NextPair ==
    \/ PairCreateState
    \/ PairGetState
    \/ PairUpdateState
    \/ PairDeleteState
    \/ PairStateExists
    \/ PairTick

SpecPair == InitPair /\ [][NextPair]_vars

----------------------------------------------------------------------------
(* Vocabulary of the properties *)

(* the payload held under an id that is in the storage *)
Stored(S, id) == IF S.kind = "memory" THEN S.states[id] ELSE S.keys[id].data

(* a session is live at time t: it is in the storage and its last touch is  *)
(* not older than the timeout                                               *)
Live(S, id, t) ==
    IF S.kind = "memory"
    THEN /\ id \in DOMAIN S.states
         /\ id \in DOMAIN S.timestamps => t - S.timestamps[id] <= Timeout
    ELSE id \in DOMAIN S.keys /\ S.keys[id].exp > t

(* the session record as a caller can see it at time t: NotFound unless live *)
NotFound == [found |-> FALSE]
Record(S, id, t) ==
    IF ~Live(S, id, t) THEN NotFound
    ELSE IF S.kind = "memory"
    THEN [found |-> TRUE, data |-> S.states[id], touched |-> S.timestamps[id]]
    ELSE [found |-> TRUE, data |-> S.keys[id].data, expires |-> S.keys[id].exp,
          touched |-> S.tskeys[id].data, ts_expires |-> S.tskeys[id].exp]

(* the phrases of a call log, in call order *)
RECURSIVE Produced(_)
Produced(calls) ==
    IF calls = <<>> THEN <<>>
    ELSE Produced(SubSeq(calls, 1, Len(calls) - 1)) \o calls[Len(calls)].phrases

(* p shares its (start_time, end_time) pair with a phrase of the list *)
SharesTimes(p, list) ==
    \E i \in 1..Len(list) :
        list[i].start_time = p.start_time /\ list[i].end_time = p.end_time

(* trailing, in order, without the phrases that share their times with acc *)
RECURSIVE UniqueTrailing(_, _)
UniqueTrailing(trailing, acc) ==
    IF trailing = <<>> THEN <<>>
    ELSE (IF SharesTimes(Head(trailing), acc) THEN <<>> ELSE << Head(trailing) >>)
         \o UniqueTrailing(Tail(trailing), acc)

----------------------------------------------------------------------------
(* C1: every successful process_chunk call returns exactly the phrases the  *)
(* pipeline produced during this call, in frame order, and afterwards the   *)
(* stored record holds the state the last frame returned and the previously *)
(* stored accumulated list followed by this call's phrases.                 *)
C1_ChunkReturnsNewAndStoresAll ==
    [][ (resp'.op = "process_chunk" /\ resp'.err = "") =>
            LET id == resp'.id
                before == Unpack(Stored(storage, id))
                after == Stored(storage', id)
                calls == resp'.calls
            IN  /\ state_exists(storage, id)
                /\ state_exists(storage', id)
                /\ calls # <<>>
                /\ resp'.v = Produced(calls)
                /\ after.tuple
                /\ after.st = calls[Len(calls)].new_state
                /\ after.acc = before.acc \o Produced(calls) ]_vars

(* a second chunk has returned one new phrase and the record holds two *)
C1_Witness ==
    /\ resp.op = "process_chunk"
    /\ resp.err = ""
    /\ Len(resp.v) = 1
    /\ Len(Stored(storage, resp.id).acc) = 2

(* C2: finalize_session on a live session returns the accumulated list      *)
(* followed by the pipeline's trailing phrases, in order, without those     *)
(* whose (start_time, end_time) pair is the pair of an accumulated phrase.  *)
C2_FinalizeReturnsAccumulatedPlusUnique ==
    [][ (resp'.op = "finalize_session" /\ resp'.err = "" /\ Live(storage, resp'.id, now)) =>
            LET accumulated == Unpack(Stored(storage, resp'.id)).acc
                trailing == resp'.calls[1].phrases
            IN  resp'.v = accumulated \o UniqueTrailing(trailing, accumulated) ]_vars

(* accumulated [a, b] and trailing [b, c] gave [a, b, c] *)
C2_Witness ==
    /\ resp.op = "finalize_session"
    /\ resp.err = ""
    /\ resp.calls[1].phrases = << Phrase("b", 1, 2), Phrase("c", 2, 3) >>
    /\ resp.v = << Phrase("a", 0, 1), Phrase("b", 1, 2), Phrase("c", 2, 3) >>

(* C3: finalized is terminal.  Once finalize_session has been attempted on  *)
(* an id (whatever its outcome) the id is not resolvable, and an id that    *)
(* has been issued and is no longer resolvable never becomes resolvable     *)
(* again, so every later process_chunk or finalize_session on it raises     *)
(* StateNotFoundError.                                                      *)
C3_FinalizedIsTerminal ==
    [][ /\ resp'.op = "finalize_session" => ~state_exists(storage', resp'.id)
        /\ \A id \in Ids :
              (id < nextId /\ ~state_exists(storage, id)) =>
                  /\ ~state_exists(storage', id)
                  /\ (resp'.op \in {"process_chunk", "finalize_session"} /\ resp'.id = id)
                        => resp'.err = "StateNotFoundError" ]_vars

(* C4: finalize_session deletes the session unconditionally: when the       *)
(* pipeline's finalize fails for a live session, the failure propagates and *)
(* the session is absent from the storage when finalize_session returns.    *)
C4_FinalizeSessionAlwaysDeletes ==
    (resp.op = "finalize_session" /\ resp.err \notin {"", "StateNotFoundError"}) =>
        ~state_exists(storage, resp.id)

C6_ChunkOnDeadSessionIsNotFound ==
    [][ ( /\ resp'.op = "process_streaming_chunk"
          /\ resp'.err # "HTTPException"
          /\ ~Live(storage, resp'.id, now) ) =>
            /\ resp'.code = 404
            /\ resp'.calls = <<>>
            /\ storage' = storage ]_vars

(* an id is in the storage although its last touch is older than the timeout *)
Expired(S, id, t) == state_exists(S, id) /\ ~Live(S, id, t)

(* C7: a session whose last touch is older than the timeout is NotFound on  *)
(* the next get_state and false on the next state_exists, swept or not.     *)
C7_ExpiredIsNotFound ==
    [][ Expired(storage, resp'.id, now) =>
            /\ resp'.op = "get_state" => resp'.data = NonePayload
            /\ resp'.op = "state_exists" => resp'.flag = FALSE ]_vars

(* C8: update_state resets the expiry clock: a live session updated at time *)
(* t is live at every instant from t until t + timeout.                     *)
C8_UpdateResetsExpiry ==
    [][ (resp'.op = "update_state" /\ resp'.err = "" /\ Live(storage, resp'.id, now)) =>
            \A u \in now..(now + Timeout - 1) : Live(storage', resp'.id, u) ]_vars

(* C9: update_state succeeds only on a live session: on an id that was      *)
(* never created, was deleted or is expired it raises KeyError and leaves   *)
(* the storage as it was.                                                   *)
C9_UpdateOnlyOnLive ==
    [][ (resp'.op = "update_state" /\ ~Live(storage, resp'.id, now)) =>
            /\ resp'.err = "KeyError"
            /\ storage' = storage ]_vars

(* C10: when read_audio or the pipeline fails during process_chunk, the     *)
(* failure propagates and the session record (pipeline state, accumulated   *)
(* phrases, last touch) is what it was before the call.                     *)
C10_FailedChunkLeavesRecord ==
    [][ (resp'.op = "process_chunk" /\ resp'.err = "Exception") =>
            Record(storage', resp'.id, now) = Record(storage, resp'.id, now) ]_vars

(* the pipeline raised on the second frame after the first one had produced *)
(* a phrase, on a session that had already accumulated one                  *)
C10_Witness ==
    /\ resp.op = "process_chunk"
    /\ resp.err = "Exception"
    /\ Len(resp.calls) = 2
    /\ resp.calls[1].phrases # <<>>
    /\ Live(storage, resp.id, now)
    /\ Stored(storage, resp.id).acc # <<>>

----------------------------------------------------------------------------
(* caller c's call returns in this step *)
Returning(c) == inflight[c].pc # "idle" /\ inflight'[c].pc = "idle"

(* another call has committed since c read the record: the record is in the *)
(* storage and its pipeline state is no longer the one c read               *)
OverwrittenSince(c) ==
    /\ inflight[c].pc # "idle"
    /\ inflight[c].id \in get_all_state_ids(storage)
    /\ Stored(storage, inflight[c].id).st # inflight[c].st

(* C11: when two process_chunk calls on one session overlap, the call that  *)
(* commits second succeeds too, and the record stored afterwards is the one *)
(* it wrote from what it had read: the state it computed and the list it    *)
(* read followed by its own phrases, without the first committer's phrases. *)
C11_LastWriterWins ==
    [][ \A c \in Callers :
            (Returning(c) /\ OverwrittenSince(c)) =>
                /\ resp'.err = ""
                /\ Stored(storage', inflight[c].id) =
                       Tuple(inflight[c].state, inflight[c].read \o inflight[c].phrases) ]_vars

(* list a is list b or a beginning of it *)
IsPrefix(a, b) == Len(a) <= Len(b) /\ SubSeq(b, 1, Len(a)) = a

(* C12: accumulated_phrases is append-only: in every step that leaves a     *)
(* session in the storage, the list stored for it afterwards is the list    *)
(* stored before or an extension of it.                                     *)
C12_AccumulatedAppendOnly ==
    [][ \A id \in Ids :
            (id \in get_all_state_ids(storage) /\ id \in get_all_state_ids(storage')) =>
                IsPrefix(Stored(storage, id).acc, Stored(storage', id).acc) ]_vars

(* C13: the stored pipeline state is None exactly until the first chunk is *)
(* processed: a session enters the storage with None, a successful          *)
(* process_chunk stores the state its last pipeline.forward call returned   *)
(* (never None), and no other step changes the pipeline state of a session  *)
(* that stays in the storage.                                               *)
C13_StateIsNoneUntilFirstChunk ==
    [][ \A id \in Ids :
            id \in get_all_state_ids(storage') =>
                IF resp'.op = "process_chunk" /\ resp'.id = id /\ resp'.err = ""
                THEN /\ resp'.calls # <<>>
                     /\ Stored(storage', id).st = resp'.calls[Len(resp'.calls)].new_state
                     /\ Stored(storage', id).st # NULL
                ELSE IF id \in get_all_state_ids(storage)
                THEN Stored(storage', id).st = Stored(storage, id).st
                ELSE Stored(storage', id).st = NULL ]_vars

(* a chunk of two frames has been processed on one session while another    *)
(* session has not received any chunk                                       *)
C13_Witness ==
    /\ resp.op = "process_chunk"
    /\ resp.err = ""
    /\ Len(resp.calls) = 2
    /\ Live(storage, resp.id, now)
    /\ Stored(storage, resp.id).st = resp.calls[2].new_state
    /\ \E other \in Ids \ {resp.id} :
           Live(storage, other, now) /\ Stored(storage, other).st = NULL

(* C14: get_state right after create_state returns a record with pipeline  *)
(* state None and an empty accumulated list, and get_state right after      *)
(* delete_state returns the NotFound signal (None), which is not what the   *)
(* freshly created session returned.                                        *)
C14_CreatedIsNotNotFound ==
    [][ (resp'.op = "get_state" /\ resp'.id = resp.id) =>
            /\ resp.op = "create_state" =>
                    /\ Unpack(resp'.data) = [st |-> NULL, acc |-> <<>>]
                    /\ resp'.data # NonePayload
            /\ resp.op = "delete_state" => resp'.data = NonePayload ]_vars

(* C15: delete_state never raises, whether the id is in the storage or not; *)
(* afterwards state_exists(id) is false and a second delete_state(id)       *)
(* leaves the storage as the first one left it.                             *)
C15_DeleteIsIdempotent ==
    [][ resp'.op = "delete_state" =>
            /\ resp'.err = ""
            /\ ~state_exists(storage', resp'.id)
            /\ delete_state(storage', resp'.id) = storage' ]_vars

(* a session that had been created has been deleted while another one stays *)
C15_Witness ==
    /\ resp.op = "delete_state"
    /\ resp.id < nextId
    /\ ~state_exists(storage, resp.id)
    /\ \E other \in Ids : state_exists(storage, other)

(* the sessions of a MemoryStorage last touched more than the timeout ago *)
Overdue(S, t) == { id \in DOMAIN S.states : t - S.timestamps[id] > Timeout }

(* C16: MemoryStorage.cleanup_expired removes exactly the sessions whose    *)
(* age (now - last touch) is strictly greater than the timeout, leaves the  *)
(* others as they were and returns how many it removed;                     *)
(* RedisStorage.cleanup_expired changes nothing and returns 0.              *)
C16_CleanupRemovesExactlyOverdue ==
    [][ resp'.op = "cleanup_expired" =>
            IF storage.kind = "memory"
            THEN /\ DOMAIN storage'.states = (DOMAIN storage.states) \ Overdue(storage, now)
                 /\ DOMAIN storage'.timestamps = DOMAIN storage'.states
                 /\ \A id \in DOMAIN storage'.states :
                        /\ storage'.states[id] = storage.states[id]
                        /\ storage'.timestamps[id] = storage.timestamps[id]
                 /\ resp'.count = Cardinality(Overdue(storage, now))
            ELSE storage' = storage /\ resp'.count = 0 ]_vars

(* a sweep removed one session and kept one that was exactly timeout old *)
C16_Witness ==
    /\ resp.op = "cleanup_expired"
    /\ resp.count = 1
    /\ storage.kind = "memory"
    /\ \E id \in DOMAIN storage.states : now - storage.timestamps[id] = Timeout

(* C17: given the same create/get/update/delete/exists calls at the same    *)
(* times, MemoryStorage and RedisStorage answer every call alike and hold   *)
(* the same live sessions at every instant.                                 *)
C17_BackendsAnswerAlike ==
    /\ resp.memory = resp.redis
    /\ \A id \in Ids : Live(storage.memory, id, now) <=> Live(storage.redis, id, now)

(* C18: RedisStorage.update_state never brings a session back: when the    *)
(* key is gone (expired, or deleted by a concurrent finalize_session) at    *)
(* the moment the update writes, the update raises KeyError and there is no *)
(* key for the id afterwards.                                               *)
C18_UpdateNeverResurrects ==
    [][ \A c \in Callers :
            ( /\ storage.kind = "redis"
              /\ Returning(c)
              /\ ~Redis_state_exists(storage, inflight[c].id) ) =>
                /\ resp'.err = "KeyError"
                /\ ~Redis_state_exists(storage', inflight[c].id) ]_vars

(* C19: RedisStorage.update_state on a live key stores the new value, the  *)
(* key expires no earlier than it would have before the update, and the     *)
(* value key and the timestamp key expire together.                         *)
C19_UpdateKeepsOrExtendsTTL ==
    [][ ( /\ resp'.op = "update_state"
          /\ storage.kind = "redis"
          /\ Live(storage, resp'.id, now) ) =>
            /\ resp'.err = ""
            /\ storage'.keys[resp'.id].data = resp'.data
            /\ storage'.keys[resp'.id].exp >= storage.keys[resp'.id].exp
            /\ storage'.tskeys[resp'.id].exp = storage'.keys[resp'.id].exp ]_vars

(* a key with less than the full timeout left has been updated *)
C19_Witness ==
    /\ resp.op = "update_state"
    /\ resp.err = ""
    /\ storage.kind = "redis"
    /\ resp.data = Tuple(1, << Phrase("a", 0, 1) >>)
    /\ Stored(storage, resp.id) = resp.data
    /\ storage.tskeys[resp.id].data = now
    /\ storage.keys[resp.id].exp - now < Timeout

(* C20: a process_streaming_chunk or finalize_streaming request for a      *)
(* session that is live in the Redis server is not answered 404 (state not  *)
(* found) because the server could not be reached.                          *)
C20_OutageIsNotNotFound ==
    [][ ( /\ resp'.op \in {"process_streaming_chunk", "finalize_streaming"}
          /\ ~reachable
          /\ Live(storage, resp'.id, now) ) =>
            /\ resp'.code # 404
            /\ resp'.err # "StateNotFoundError" ]_vars

(* C21: a chunk request whose upload is empty or over the size limit is    *)
(* rejected by validate_audio_file before the storage or the pipeline is    *)
(* touched: the storage is what it was, expired sessions included, and no   *)
(* pipeline call is made, whatever the session id.                          *)
C21_InvalidUploadLeavesStorage ==
    [][ (resp'.op = "process_streaming_chunk" /\ resp'.err = "HTTPException") =>
            /\ storage' = storage
            /\ resp'.calls = <<>> ]_vars

(* an invalid upload was sent for a live session while the MemoryStorage    *)
(* held an expired session that a get_state would have swept                *)
C21_Witness ==
    /\ resp.op = "process_streaming_chunk"
    /\ resp.err = "HTTPException"
    /\ Live(storage, resp.id, now)
    /\ \E other \in Ids : Expired(storage, other, now)

(* the sample at position p of the buffer, zero beyond its end *)
SampleOrZero(audio, p) == IF p <= Len(audio) THEN audio[p] ELSE 0

(* the frames are n pieces of CHUNK_SIZE samples that hold the buffer in    *)
(* order, followed by zeros                                                 *)
CutsInOrder(audio, frames, n) ==
    /\ Len(frames) = n
    /\ \A i \in 1..n :
          /\ Len(frames[i].chunk) = ChunkSize
          /\ \A j \in 1..ChunkSize :
                frames[i].chunk[j] = SampleOrZero(audio, (i - 1) * ChunkSize + j)

(* the pipeline was called once per frame, in order, with the frame's is_last *)
OneCallPerFrame(frames, calls) ==
    /\ Len(calls) = Len(frames)
    /\ \A i \in 1..Len(frames) :
          /\ calls[i].n = Len(frames[i].chunk)
          /\ calls[i].is_last = frames[i].is_last

(* C22: a buffer longer than CHUNK_SIZE is padded with zeros on the right   *)
(* to the next multiple of CHUNK_SIZE and cut into ceil(len / CHUNK_SIZE)   *)
(* consecutive frames in the original order; is_last is true for the last   *)
(* frame and false for the others.                                          *)
C22_LongBufferIsSplit ==
    (resp.op = "transcribe_streaming" /\ Len(resp.audio) > ChunkSize) =>
        LET n == (Len(resp.audio) + ChunkSize - 1) \div ChunkSize
        IN  /\ CutsInOrder(resp.audio, resp.frames, n)
            /\ \A i \in 1..n : resp.frames[i].is_last = (i = n)
            /\ OneCallPerFrame(resp.frames, resp.calls)

(* one sample more than a frame, none of them zero: two frames, the second  *)
(* padded                                                                   *)
C22_Witness ==
    /\ resp.op = "transcribe_streaming"
    /\ Len(resp.audio) = ChunkSize + 1
    /\ \A p \in 1..Len(resp.audio) : resp.audio[p] # 0
    /\ Len(resp.frames) = 2
    /\ resp.frames[2].chunk[1] # 0
    /\ resp.frames[2].chunk[ChunkSize] = 0
    /\ resp.frames[2].is_last

(* C23: a buffer of exactly CHUNK_SIZE samples gives one frame, the buffer  *)
(* itself, with is_last false.                                              *)
C23_ExactBufferIsOneFrame ==
    (resp.op = "transcribe_streaming" /\ Len(resp.audio) = ChunkSize) =>
        /\ resp.frames = << [chunk |-> resp.audio, is_last |-> FALSE] >>
        /\ OneCallPerFrame(resp.frames, resp.calls)

C23_Witness ==
    /\ resp.op = "transcribe_streaming"
    /\ Len(resp.audio) = ChunkSize
    /\ resp.audio[ChunkSize] # 0
    /\ Len(resp.frames) = 1
    /\ ~resp.frames[1].is_last

(* C24: a buffer shorter than CHUNK_SIZE gives one frame of CHUNK_SIZE      *)
(* samples, the buffer followed by zeros, with is_last false.               *)
C24_ShortBufferIsPadded ==
    (resp.op = "transcribe_streaming" /\ Len(resp.audio) < ChunkSize) =>
        /\ CutsInOrder(resp.audio, resp.frames, 1)
        /\ ~resp.frames[1].is_last
        /\ OneCallPerFrame(resp.frames, resp.calls)

(* a buffer of one non-zero sample was padded *)
C24_Witness ==
    /\ resp.op = "transcribe_streaming"
    /\ Len(resp.audio) = 1
    /\ resp.audio[1] # 0
    /\ Len(resp.frames) = 1
    /\ resp.frames[1].chunk[1] = resp.audio[1]
    /\ resp.frames[1].chunk[ChunkSize] = 0

(* the frames' samples one after the other *)
RECURSIVE Concatenated(_)
Concatenated(frames) ==
    IF frames = <<>> THEN <<>> ELSE Head(frames).chunk \o Concatenated(Tail(frames))

(* C25: the frames of a buffer, concatenated in order and cut to the length *)
(* of the buffer, are the buffer; every sample beyond that length is zero.  *)
C25_SegmenterRoundTrip ==
    resp.op = "transcribe_streaming" =>
        LET all == Concatenated(resp.frames)
        IN  /\ Len(all) >= Len(resp.audio)
            /\ SubSeq(all, 1, Len(resp.audio)) = resp.audio
            /\ \A p \in (Len(resp.audio) + 1)..Len(all) : all[p] = 0

(* three frames were cut from a buffer that ends with a zero sample of its  *)
(* own and needed padding                                                   *)
C25_Witness ==
    /\ resp.op = "transcribe_streaming"
    /\ Len(resp.frames) = 3
    /\ Len(resp.audio) % ChunkSize # 0
    /\ resp.audio[1] # 0
    /\ resp.audio[Len(resp.audio)] = 0
    /\ Len(Concatenated(resp.frames)) = Len(resp.audio) + ChunkSize - 1

(* C26: every MemoryStorage operation takes effect atomically under        *)
(* concurrent callers: once the calls under way have returned, the storage  *)
(* is one that whole operations leave, in which a session has a state and a *)
(* timestamp or neither.                                                    *)
C26_OperationsAreAtomic ==
    (\A c \in Callers : inflight[c].pc = "idle") =>
        DOMAIN storage.states = DOMAIN storage.timestamps

(* C27: an abandoned session is reclaimed lazily: a create_state or         *)
(* get_state on the MemoryStorage, for any id, removes every session whose  *)
(* age exceeds the timeout, so while such calls keep occurring a session    *)
(* past its timeout is eventually absent, unless an update_state touched it *)
(* in the meantime.                                                         *)
C27_AbandonedIsReclaimed ==
    /\ [][resp'.op \in {"create_state", "get_state"} =>
            \A id \in Ids : Expired(storage, id, now) => ~state_exists(storage', id)]_vars
    /\ \A id \in Ids :
          Expired(storage, id, now) ~>
              (~state_exists(storage, id) \/ (resp.op = "update_state" /\ resp.id = id /\ resp.err = ""))

(* get_state for one id has just served while an older session is gone:    *)
(* that session was swept, nothing else removes one here                    *)
C27_Witness ==
    /\ resp.op = "get_state"
    /\ \E id \in Ids : id < nextId /\ id # resp.id /\ ~state_exists(storage, id)
    /\ state_exists(storage, resp.id)

(* C28: with an API key configured, a request to start, chunk or finalize  *)
(* a streaming session that does not carry the matching X-API-Key header is *)
(* answered 401 and creates, updates and deletes no session.                *)
C28_StreamingRequiresKey ==
    [][(/\ resp'.op \in {"start_streaming", "process_streaming_chunk", "finalize_streaming"}
        /\ ~resp'.flag)
       => (resp'.code = 401 /\ storage' = storage)]_vars

(* C29: within one process_chunk the frames are fed to the decoder in      *)
(* order with the state threaded through: the first frame with the stored   *)
(* state (None for a session just created), each later frame with the state *)
(* the preceding frame returned, one decoder step per frame, and the state  *)
(* the last frame returned is the one stored.                               *)
C29_StateIsThreaded ==
    [][(resp'.op = "process_chunk" /\ resp'.err = "")
       => LET calls == resp'.calls
              k == Len(calls)
          IN  /\ k >= 1
              /\ calls[1].state = Stored(storage, resp'.id).st
              /\ \A i \in 1..k : calls[i].ok /\ calls[i].new_state = calls[i].state + 1
              /\ \A i \in 1..(k - 1) :
                    /\ calls[i + 1].state = calls[i].new_state
                    /\ ~calls[i].is_last
              /\ Stored(storage', resp'.id).st = calls[k].new_state]_vars

(* a chunk of two frames on a session just created has been processed *)
C29_Witness ==
    /\ resp.op = "process_chunk"
    /\ resp.err = ""
    /\ Len(resp.calls) = 2
    /\ resp.calls[1].state = NULL
    /\ resp.calls[2].state # NULL
    /\ resp.calls[2].is_last
    /\ Stored(storage, resp.id).st = resp.calls[2].new_state

(* C30: process_chunk works on a copy of the record and writes it back at  *)
(* once: while a call is under way, from its get_state to its update_state, *)
(* the record stored for its session is still the one it read, so a         *)
(* get_state never returns a list that holds the phrases of the call with   *)
(* the pipeline state from before the call.                                 *)
C30_RecordChangesOnlyAtUpdate ==
    \A c \in Callers :
        (inflight[c].pc # "idle" /\ inflight[c].id \in get_all_state_ids(storage)) =>
            Stored(storage, inflight[c].id) = Tuple(inflight[c].st, inflight[c].read)

(* C31: a process_chunk call whose session is deleted after its existence   *)
(* check and before its update_state ends with StateNotFoundError, not with *)
(* another error, and the session is not in the storage afterwards.         *)
C31_DeletedMeanwhileIsNotFound ==
    [][ \A c \in Callers :
            (/\ Returning(c)
             /\ inflight[c].pc = "extended"
             /\ inflight[c].id \notin get_all_state_ids(storage))
            => (/\ resp'.err = "StateNotFoundError"
                /\ inflight[c].id \notin get_all_state_ids(storage')) ]_vars

(* C32: at the chunk endpoint a validation failure reaches the client with *)
(* the status the validator raised: 400 for an empty upload, 413 for one    *)
(* over the maximum size, not 500.                                          *)
C32_ValidationStatusReachesClient ==
    (resp.op = "process_streaming_chunk" /\ resp.count # 0) =>
        (resp.count \in {400, 413} /\ resp.code = resp.count)

(* C33: when the shutdown handler completes without an error of the        *)
(* storage, every session that was in the storage when it started has been  *)
(* deleted: the storage holds no session afterwards.                        *)
C33_ShutdownDeletesAll ==
    [][(resp'.op = "shutdown" /\ resp'.err = "")
       => /\ \A id \in get_all_state_ids(storage) : ~state_exists(storage', id)
          /\ get_all_state_ids(storage') = {}
          /\ resp'.count = Cardinality(get_all_state_ids(storage))]_vars

(* the handler has found MaxIds sessions and none is left *)
C33_Witness ==
    /\ resp.op = "shutdown"
    /\ resp.err = ""
    /\ resp.count = MaxIds
    /\ get_all_state_ids(storage) = {}

(* what the storage holds for a session that is in it: payload, last touch  *)
(* and, on Redis, the expiry of both keys                                   *)
Entry(S, id) ==
    IF S.kind = "memory"
    THEN [data |-> S.states[id], touched |-> S.timestamps[id]]
    ELSE [data |-> S.keys[id].data, expires |-> S.keys[id].exp,
          touched |-> S.tskeys[id].data, ts_expires |-> S.tskeys[id].exp]

(* C34: sessions are isolated: create_session, process_chunk and            *)
(* finalize_session for one id, with the update_state and delete_state they *)
(* make, leave every other live session in the storage with its payload and *)
(* last touch unchanged; another id is at most removed, and only when it is *)
(* past the timeout.                                                        *)
C34_SessionsAreIsolated ==
    [][resp'.op \in {"create_session", "process_chunk", "finalize_session"}
       => \A other \in Ids \ {resp'.id} :
            /\ Live(storage, other, now) => state_exists(storage', other)
            /\ state_exists(storage', other) =>
                  /\ state_exists(storage, other)
                  /\ Entry(storage', other) = Entry(storage, other)]_vars

(* a chunk has been processed for one session while another one, touched    *)
(* earlier, is live                                                         *)
C34_Witness ==
    /\ resp.op = "process_chunk"
    /\ resp.err = ""
    /\ \E other \in Ids \ {resp.id} :
          /\ Live(storage, other, now)
          /\ Entry(storage, other).touched < now
          /\ Entry(storage, other).data.acc # <<>>

(* C35: only update_state and create_state set the last touch of a         *)
(* session: get_state and state_exists leave every live session in the      *)
(* storage with its last touch and remaining lifetime unchanged, a step      *)
(* after which a session has another last touch is an update_state or       *)
(* create_state of that session, and so a session that is only read expires *)
(* Timeout after its last touch: it is live at every instant before and at  *)
(* no instant after.                                                        *)
C35_OnlyUpdateTouches ==
    [][\A id \in Ids :
         /\ (resp'.op \in {"get_state", "state_exists"} /\ Live(storage, id, now))
               => (state_exists(storage', id) /\ Entry(storage', id) = Entry(storage, id))
         /\ (/\ state_exists(storage, id)
             /\ state_exists(storage', id)
             /\ Entry(storage', id).touched # Entry(storage, id).touched)
               => (resp'.op \in {"update_state", "create_state"} /\ resp'.id = id)
         /\ (resp'.op \in {"get_state", "state_exists"} /\ Live(storage', id, now))
               => LET touched == Entry(storage', id).touched
                  IN  \A u \in now..(MaxTime + Timeout + 1) :
                        /\ u < touched + Timeout => Live(storage', id, u)
                        /\ u > touched + Timeout => ~Live(storage', id, u)]_vars

(* C36: every frame handed to the pipeline has exactly CHUNK_SIZE samples   *)
(* and every transcribe_streaming call makes at least one pipeline call,    *)
(* for every sample count, 0 included: an empty buffer gives one frame of   *)
(* zeros with is_last = False.                                              *)
C36_FramesAreWholeAndSome ==
    resp.op = "transcribe_streaming" =>
        /\ Len(resp.calls) >= 1
        /\ \A i \in 1..Len(resp.calls) : resp.calls[i].n = ChunkSize
        /\ \A i \in 1..Len(resp.frames) : Len(resp.frames[i].chunk) = ChunkSize
        /\ resp.audio = <<>> =>
              /\ resp.frames = << [chunk |-> Zeros(ChunkSize), is_last |-> FALSE] >>
              /\ Len(resp.calls) = 1
              /\ ~resp.calls[1].is_last

(* an empty buffer has been passed to the pipeline as one frame *)
C36_Witness ==
    /\ resp.op = "transcribe_streaming"
    /\ resp.audio = <<>>
    /\ Len(resp.calls) = 1
    /\ resp.calls[1].n = ChunkSize

(* C37: finalize_session compares the trailing phrases with the accumulated *)
(* list only: the accumulated list comes back unchanged at the front of the *)
(* result, duplicates in it included; after it come as many phrases as      *)
(* there are trailing phrases sharing their times with no accumulated       *)
(* phrase, each of those being there even when it shares its times with     *)
(* another trailing phrase; and no phrase after the front shares its times  *)
(* with an accumulated one, whatever its text.                              *)
C37_DedupAgainstAccumulatedOnly ==
    [][ (resp'.op = "finalize_session" /\ resp'.err = "" /\ Live(storage, resp'.id, now)) =>
            LET accumulated == Unpack(Stored(storage, resp'.id)).acc
                trailing == resp'.calls[1].phrases
                fresh == { i \in 1..Len(trailing) : ~SharesTimes(trailing[i], accumulated) }
                n == Len(accumulated)
            IN  /\ Len(resp'.v) = n + Cardinality(fresh)
                /\ SubSeq(resp'.v, 1, n) = accumulated
                /\ \A i \in fresh : \E j \in (n + 1)..Len(resp'.v) : resp'.v[j] = trailing[i]
                /\ \A j \in (n + 1)..Len(resp'.v) : ~SharesTimes(resp'.v[j], accumulated) ]_vars

(* trailing [b, x], both at (1, 2), came back after the accumulated [a] *)
C37_Witness ==
    /\ resp.op = "finalize_session"
    /\ resp.err = ""
    /\ resp.calls[1].phrases = << Phrase("b", 1, 2), Phrase("x", 1, 2) >>
    /\ resp.v = << Phrase("a", 0, 1), Phrase("b", 1, 2), Phrase("x", 1, 2) >>

(* C38: MemoryStorage keeps its two maps in step: after any sequence of    *)
(* create_state, get_state, update_state, delete_state, state_exists and    *)
(* cleanup_expired calls, one after the other, _states and _timestamps have *)
(* the same keys.                                                           *)
C38_MapsInStep ==
    storage.kind = "memory" => DOMAIN storage.states = DOMAIN storage.timestamps

(* one of two sessions has just been deleted from a MemoryStorage *)
C38_Witness ==
    /\ storage.kind = "memory"
    /\ resp.op = "delete_state"
    /\ resp.id < nextId
    /\ resp.id \notin DOMAIN storage.states
    /\ DOMAIN storage.timestamps # {}

====
